---- MODULE Spec2Model ----
(***************************************************************************)
(* Model of main.py: fetch_data (the retrying request helper), the         *)
(* wrappers get_all_outages / get_site_info / post_site_outages, the pure  *)
(* filter_and_transform_outages, and main.                                 *)
(*                                                                         *)
(* Python values are tagged records [t, v]: None, list, dict.  Lists are   *)
(* sequences, dicts are functions from keys to values.  Durations are in   *)
(* milliseconds.  Timestamps are ISO-8601 strings kept in structured form: *)
(* wall-clock hours relative to 2022-01-01T00:00:00 plus a UTC offset in   *)
(* hours, or a naive or a malformed string.                                *)
(***************************************************************************)
EXTENDS Integers, Sequences, FiniteSets, TLC

VARIABLES
    pc,                 \* position of main (or "harness" for a direct call)
    outages,            \* main: local `outages`
    site_info,          \* main: local `site_info`
    processed_outages,  \* main: local `processed_outages`
    post_response,      \* main: local `response`
    reported,           \* main: line 174-175 executed
    fpc,                \* fetch_data: "idle", "loop", "sleep", "returned", "raised"
    endpoint,           \* fetch_data: argument
    method,             \* fetch_data: argument
    retries,            \* fetch_data: argument
    backoff_factor,     \* fetch_data: argument (ms)
    i,                  \* fetch_data: loop index
    response,           \* fetch_data: local `response` (Unbound before the first one)
    wait_time,          \* fetch_data: local `wait_time`
    ret,                \* fetch_data: returned value
    exc,                \* exception propagating to the top level ("none" if none)
    attempts,           \* history: outcome of each request of the current call
    sleeps,             \* history: duration of each sleep of the current call
    sent,               \* history: endpoints that received at least one request
    trail               \* history: the steps main has begun, in order

mainVars  == <<pc, outages, site_info, processed_outages, post_response, reported>>
fetchVars == <<fpc, endpoint, method, retries, backoff_factor, i, response, wait_time, ret>>
histVars  == <<attempts, sleeps, sent, trail>>
vars      == <<mainVars, fetchVars, exc, histVars>>

----------------------------------------------------------------------------
(* Bounds and program constants *)

MaxRetries == 4
MaxOutages == 2
MaxDevices == 2
MaxServerOutages == 1

DefaultRetries == 5
DefaultBackoff == 500

BackoffFactors == {0, 3, DefaultBackoff}

----------------------------------------------------------------------------
(* Python values *)

None       == [t |-> "None"]
PyList(s)  == [t |-> "list", v |-> s]
PyDict(d)  == [t |-> "dict", v |-> d]
PyInt(n)   == [t |-> "int", v |-> n]
PyBool(b)  == [t |-> "bool", v |-> b]
EmptyDict  == [k \in {} |-> 0]

\* bool(x) as `if not x` evaluates it
Truthy(x) ==
    CASE x.t = "None" -> FALSE
      [] x.t = "list" -> Len(x.v) # 0
      [] x.t = "dict" -> DOMAIN x.v # {}
      [] x.t = "int"  -> x.v # 0
      [] x.t = "bool" -> x.v

SeqsUpTo(S, n) == UNION {[1..k -> S] : k \in 0..n}

----------------------------------------------------------------------------
(* Data: timestamps, outages, devices, and what the server may answer *)

\* An ISO-8601 string: form "offset" (wall-clock hour t at UTC offset off),
\* "naive" (wall-clock hour t, no offset) or "malformed".
Stamp(form, t, off) == [form |-> form, t |-> t, off |-> off]

Malformed == Stamp("malformed", 0, 0)

\* Around the cutoff: before, at and after it at offset 0; the cutoff's wall-clock
\* time one hour east (an hour before it); an hour later east and an hour earlier
\* west (both the cutoff instant itself).
Begins ==
    {Stamp("offset", -1, 0), Stamp("offset", 0, 0), Stamp("offset", 1, 0),
     Stamp("offset", 0, 1), Stamp("offset", 1, 1), Stamp("offset", -1, -1),
     Stamp("naive", 1, 0), Malformed}

DeviceIds   == {"d1", "d2"}
DeviceNames == {"Fridge", "Oven"}
Devices     == [id : DeviceIds, name : DeviceNames]

\* Outage dicts: id and begin always, a pre-existing "name" key sometimes.
PlainOutages == [id : DeviceIds, begin : Begins]
NamedOutages == [id : {"d1"}, begin : {Stamp("offset", 1, 0), Stamp("offset", -1, 0)},
                 name : {"Stale"}]
Outages      == PlainOutages \cup NamedOutages

SiteInfoOf(devs) == PyDict([devices |-> devs])

\* JSON bodies the server may send with a 2xx status, per endpoint.
ServerOutages ==
    {[id |-> "d1", begin |-> Stamp("offset", 1, 0)],
     [id |-> "d1", begin |-> Stamp("offset", -1, 0)],
     [id |-> "d2", begin |-> Stamp("offset", 0, 0)],
     [id |-> "d1", begin |-> Malformed]}

OutagesBodies  == {PyList(s) : s \in SeqsUpTo(ServerOutages, MaxServerOutages)} \cup {None}
SiteInfoBodies == {SiteInfoOf(<<>>), SiteInfoOf(<<[id |-> "d1", name |-> "Fridge"]>>),
                   PyDict(EmptyDict)}
PostBodies     == {PyDict([status |-> "ok"]), PyDict(EmptyDict), PyList(<<>>), PyInt(0),
                   PyBool(FALSE), None}

OutagesEndpoint     == "/outages"
SiteInfoEndpoint    == "/site-info/norwich-pear-tree"
SiteOutagesEndpoint == "/site-outages/norwich-pear-tree"

Bodies(ep) ==
    CASE ep = OutagesEndpoint     -> OutagesBodies
      [] ep = SiteInfoEndpoint    -> SiteInfoBodies
      [] ep = SiteOutagesEndpoint -> PostBodies

----------------------------------------------------------------------------
(* filter_and_transform_outages *)

\* d[k] = v on a copy of dict d
DictPut(d, k, v) == [x \in DOMAIN d \cup {k} |-> IF x = k THEN v ELSE d[x]]

\* datetime.fromisoformat: ValueError on a malformed string, otherwise a naive
\* or an aware datetime.
fromisoformat(s) ==
    IF s.form = "malformed"
    THEN [ok |-> FALSE, aware |-> FALSE, t |-> 0, off |-> 0]
    ELSE [ok |-> TRUE, aware |-> s.form = "offset", t |-> s.t,
          off |-> IF s.form = "offset" THEN s.off ELSE 0]

\* The instant of an aware datetime, in hours since 2022-01-01T00:00:00Z
Instant(d) == d.t - d.off

\* Mutant: a > b instead of a >= b.
DatetimeGeStrict(a, b) == IF a.aware THEN a.t - a.off > b.t - b.off ELSE a.t > b.t

\* a >= b on two datetimes of the same awareness
DatetimeGe(a, b) == IF a.aware THEN Instant(a) >= Instant(b) ELSE a.t >= b.t

\* "2022-01-01T00:00:00.000Z" (line 102)
CutoffString == Stamp("offset", 0, 0)
cutoff_datetime == fromisoformat(CutoffString)

\* Mutant: the first device with an id keeps its name.
RECURSIVE FirstWinsMap(_)
FirstWinsMap(devs) ==
    IF devs = <<>>
    THEN EmptyDict
    ELSE DictPut(FirstWinsMap(Tail(devs)), Head(devs).id, Head(devs).name)

\* {device["id"]: device["name"] for device in devices} (line 103)
RECURSIVE device_id_name_map(_)
device_id_name_map(devs) ==
    IF devs = <<>>
    THEN EmptyDict
    ELSE LET n == Len(devs)
         IN  DictPut(device_id_name_map(SubSeq(devs, 1, n - 1)), devs[n].id, devs[n].name)

\* The condition of the comprehension (line 108): "raise" names the exception
\* its evaluation raises, "keep" its value otherwise.
Condition(outage, map) ==
    LET d == fromisoformat(outage.begin)
    IN  IF ~d.ok THEN [raise |-> "ValueError", keep |-> FALSE]
        ELSE IF d.aware # cutoff_datetime.aware THEN [raise |-> "TypeError", keep |-> FALSE]
        ELSE [raise |-> "none",
              keep |-> DatetimeGe(d, cutoff_datetime) /\ outage.id \in DOMAIN map]

\* {**outage, "name": device_id_name_map[outage["id"]]} (line 106)
Enrich(outage, map) == DictPut(outage, "name", map[outage.id])

\* Mutant: the retained outages come out in reverse order.
RECURSIVE ComprehensionReversed(_, _)
ComprehensionReversed(outs, map) ==
    IF outs = <<>>
    THEN [raise |-> "none", out |-> <<>>]
    ELSE LET c == Condition(Head(outs), map)
         IN  IF c.raise # "none"
             THEN [raise |-> c.raise, out |-> <<>>]
             ELSE LET rest == ComprehensionReversed(Tail(outs), map)
                  IN  IF rest.raise # "none" THEN rest
                      ELSE [raise |-> "none",
                            out |-> IF c.keep
                                    THEN rest.out \o <<Enrich(Head(outs), map)>>
                                    ELSE rest.out]

\* The list comprehension (lines 105-109), evaluated front to back.
RECURSIVE Comprehension(_, _)
Comprehension(outs, map) ==
    IF outs = <<>>
    THEN [raise |-> "none", out |-> <<>>]
    ELSE LET c == Condition(Head(outs), map)
         IN  IF c.raise # "none"
             THEN [raise |-> c.raise, out |-> <<>>]
             ELSE LET rest == Comprehension(Tail(outs), map)
                  IN  IF rest.raise # "none" THEN rest
                      ELSE [raise |-> "none",
                            out |-> IF c.keep
                                    THEN <<Enrich(Head(outs), map)>> \o rest.out
                                    ELSE rest.out]

\* outs: the list of outage dicts; info: the site-info dict
filter_and_transform_outages(outs, info) ==
    IF "devices" \notin DOMAIN info
    THEN [raise |-> "KeyError", out |-> <<>>]
    ELSE Comprehension(outs, device_id_name_map(info.devices))

----------------------------------------------------------------------------
(* fetch_data *)

StatusCodes == {200, 400, 404, 429, 500}

\* What one requests.request call can do: deliver a response (whose body may
\* or may not be valid JSON), raise requests.Timeout, or raise another
\* requests.RequestException (connection failure).
Outcomes(ep) ==
    {[kind |-> "response", status |-> 200, valid |-> TRUE, body |-> b] : b \in Bodies(ep)}
        \cup {[kind |-> "response", status |-> s, valid |-> FALSE, body |-> None] :
                 s \in StatusCodes}
        \cup {[kind |-> k, status |-> 0, valid |-> FALSE, body |-> None] :
                 k \in {"timeout", "error"}}

LogOf(o) == [kind |-> o.kind, status |-> o.status, valid |-> o.valid]

\* `at` is the identity of the object bound to `response`: the index of the
\* attempt whose requests.request call returned it
Unbound == [bound |-> FALSE, status |-> 0, valid |-> FALSE, body |-> None, at |-> -1]
ResponseOf(o, n) ==
    [bound |-> TRUE, status |-> o.status, valid |-> o.valid, body |-> o.body, at |-> n]

\* Mutant: the exponent is one too high.
WaitTimeDoubled(bf, n) == bf * (2 ^ (n + 1))

\* Mutant: the delay grows linearly with the attempt index.
WaitTimeLinear(bf, n) == bf * (n + 1)

\* line 38
WaitTime(bf, n) == bf * (2 ^ n)

\* Response.raise_for_status raises HTTPError for 4xx and 5xx
RaisesForStatus(status) == status >= 400 /\ status < 600

\* Mutant: a 400 is handled like any other HTTP error status (logged, retried).
BranchRetryOn400(o) ==
    CASE o.kind = "timeout" -> "timeout"
      [] o.kind = "error" -> "request_exception"
      [] o.kind = "response" /\ o.status = 429 -> "backoff"
      [] o.kind = "response" /\ o.status # 429 /\ RaisesForStatus(o.status) -> "http_error"
      [] o.kind = "response" /\ o.status # 429 /\ ~RaisesForStatus(o.status) /\ o.valid
            -> "success"
      [] OTHER -> "json_error"

\* Mutant: a timeout ends the call at once, like a 400.
BranchTimeoutFatal(o) ==
    CASE o.kind = "timeout" -> "bad_request"
      [] o.kind = "error" -> "request_exception"
      [] o.kind = "response" /\ o.status = 429 -> "backoff"
      [] o.kind = "response" /\ o.status = 400 -> "bad_request"
      [] o.kind = "response" /\ o.status \notin {429, 400} /\ RaisesForStatus(o.status)
            -> "http_error"
      [] o.kind = "response" /\ o.status \notin {429, 400} /\ ~RaisesForStatus(o.status)
            /\ o.valid -> "success"
      [] OTHER -> "json_error"

\* Mutant: a 5xx status is backed off like a 429.
BranchBackoffOn5xx(o) ==
    CASE o.kind = "timeout" -> "timeout"
      [] o.kind = "error" -> "request_exception"
      [] o.kind = "response" /\ (o.status = 429 \/ o.status >= 500) -> "backoff"
      [] o.kind = "response" /\ o.status = 400 -> "bad_request"
      [] o.kind = "response" /\ o.status \notin {429, 400} /\ o.status < 500
            /\ RaisesForStatus(o.status) -> "http_error"
      [] o.kind = "response" /\ o.status \notin {429, 400} /\ ~RaisesForStatus(o.status)
            /\ o.valid -> "success"
      [] OTHER -> "json_error"

\* The branch of the loop body an outcome takes (lines 35-60).
Branch(o) ==
    CASE o.kind = "timeout" -> "timeout"
      [] o.kind = "error" -> "request_exception"
      [] o.kind = "response" /\ o.status = 429 -> "backoff"
      [] o.kind = "response" /\ o.status = 400 -> "bad_request"
      [] o.kind = "response" /\ o.status \notin {429, 400} /\ RaisesForStatus(o.status)
            -> "http_error"
      [] o.kind = "response" /\ o.status \notin {429, 400} /\ ~RaisesForStatus(o.status)
            /\ o.valid -> "success"
      [] OTHER -> "json_error"

\* Entering fetch_data (lines 30-33)
CallFetch(ep, m, r, bf) ==
    /\ fpc' = "loop"
    /\ endpoint' = ep
    /\ method' = m
    /\ retries' = r
    /\ backoff_factor' = bf
    /\ i' = 0
    /\ response' = Unbound
    /\ wait_time' = 0
    /\ ret' = None
    /\ attempts' = <<>>
    /\ sleeps' = <<>>

\* Mutant: the decoded body is dropped and None is returned.
FetchReturnAbsent(value) ==
    /\ fpc' = "returned"
    /\ ret' = None
    /\ UNCHANGED <<i, wait_time, exc>>

\* return None (line 45) or return response.json() (line 48)
FetchReturn(value) ==
    /\ fpc' = "returned"
    /\ ret' = value
    /\ UNCHANGED <<i, wait_time, exc>>

FetchContinue ==
    /\ fpc' = "loop"
    /\ i' = i + 1
    /\ UNCHANGED <<ret, wait_time, exc>>

\* One pass of the loop body up to the point where it blocks, continues or returns.
FetchRequest(o) ==
    /\ fpc = "loop"
    /\ i < retries
    /\ attempts' = Append(attempts, LogOf(o))
    /\ sent' = sent \cup {endpoint}
    /\ response' = IF o.kind = "response" THEN ResponseOf(o, i) ELSE response
    /\ CASE Branch(o) = "backoff" ->
                /\ wait_time' = WaitTime(backoff_factor, i)
                /\ fpc' = "sleep"
                /\ UNCHANGED <<i, ret, exc>>
         [] Branch(o) = "bad_request" -> FetchReturn(None)
         [] Branch(o) = "success" -> FetchReturn(o.body)
         [] Branch(o) \in {"timeout", "http_error", "json_error"} -> FetchContinue
         [] Branch(o) = "request_exception" ->
                \* line 59 reads `response`, which is unbound until a request has returned
                IF response.bound
                THEN FetchContinue
                ELSE /\ fpc' = "raised"
                     /\ exc' = "UnboundLocalError"
                     /\ UNCHANGED <<i, ret, wait_time>>
    /\ UNCHANGED <<mainVars, endpoint, method, retries, backoff_factor, sleeps, trail>>

\* Mutant: a backoff does not use up an attempt.
FetchSleepNoAdvance ==
    /\ fpc = "sleep"
    /\ sleeps' = Append(sleeps, wait_time)
    /\ fpc' = "loop"
    /\ UNCHANGED <<mainVars, endpoint, method, retries, backoff_factor, i, response,
                   wait_time, ret, exc, attempts, sent, trail>>

\* time.sleep(wait_time); continue (lines 40-41)
FetchSleep ==
    /\ fpc = "sleep"
    /\ sleeps' = Append(sleeps, wait_time)
    /\ i' = i + 1
    /\ fpc' = "loop"
    /\ UNCHANGED <<mainVars, endpoint, method, retries, backoff_factor, response,
                   wait_time, ret, exc, attempts, sent, trail>>

\* Mutant: the loop gives up one attempt early.
FetchExhaustedEarly ==
    /\ fpc = "loop"
    /\ i >= retries - 1
    /\ fpc' = "returned"
    /\ ret' = None
    /\ UNCHANGED <<mainVars, endpoint, method, retries, backoff_factor, i, response,
                   wait_time, exc, attempts, sleeps, sent, trail>>

\* range(retries) is used up (line 62)
FetchExhausted ==
    /\ fpc = "loop"
    /\ i >= retries
    /\ fpc' = "returned"
    /\ ret' = None
    /\ UNCHANGED <<mainVars, endpoint, method, retries, backoff_factor, i, response,
                   wait_time, exc, attempts, sleeps, sent, trail>>

FetchStep ==
    \/ \E o \in Outcomes(endpoint) : FetchRequest(o)
    \/ FetchSleep
    \/ FetchExhausted

----------------------------------------------------------------------------
(* A direct call of fetch_data with arbitrary retries and backoff_factor *)

InitMainIdle ==
    /\ outages = None
    /\ site_info = None
    /\ processed_outages = <<>>
    /\ post_response = None
    /\ reported = FALSE
    /\ exc = "none"
    /\ sent = {}
    /\ trail = <<>>

InitFetch ==
    /\ pc = "harness"
    /\ InitMainIdle
    /\ fpc = "loop"
    /\ endpoint = OutagesEndpoint
    /\ method = "GET"
    /\ retries \in 0..MaxRetries
    /\ backoff_factor \in BackoffFactors
    /\ i = 0
    /\ response = Unbound
    /\ wait_time = 0
    /\ ret = None
    /\ attempts = <<>>
    /\ sleeps = <<>>

NextFetch == FetchStep

SpecFetch == InitFetch /\ [][NextFetch]_vars

----------------------------------------------------------------------------
(* main, get_all_outages, get_site_info, post_site_outages *)

\* lines 141-144: get_all_outages() calls fetch_data("/outages")
MainGetAllOutages ==
    /\ pc = "start"
    /\ pc' = "get_all_outages"
    /\ trail' = Append(trail, "get_all_outages")
    /\ CallFetch(OutagesEndpoint, "GET", DefaultRetries, DefaultBackoff)
    /\ UNCHANGED <<outages, site_info, processed_outages, post_response, reported,
                   exc, sent>>

\* Mutant: main goes on to the site-info fetch whatever the outages fetch returned.
MainGetSiteInfoNoCheck ==
    /\ pc = "get_all_outages"
    /\ fpc = "returned"
    /\ outages' = ret
    /\ pc' = "get_site_info"
    /\ trail' = Append(trail, "get_site_info")
    /\ CallFetch(SiteInfoEndpoint, "GET", DefaultRetries, DefaultBackoff)
    /\ UNCHANGED <<site_info, processed_outages, post_response, reported, exc, sent>>

\* lines 144-153: the outages fetch has returned; stop, or fetch the site info
MainGetSiteInfo ==
    /\ pc = "get_all_outages"
    /\ fpc = "returned"
    /\ outages' = ret
    /\ IF ~Truthy(ret)
       THEN /\ pc' = "done"
            /\ UNCHANGED <<fetchVars, attempts, sleeps, trail>>
       ELSE /\ pc' = "get_site_info"
            /\ trail' = Append(trail, "get_site_info")
            /\ CallFetch(SiteInfoEndpoint, "GET", DefaultRetries, DefaultBackoff)
    /\ UNCHANGED <<site_info, processed_outages, post_response, reported, exc, sent>>

\* lines 153-165: the site-info fetch has returned; stop, or filter and transform
MainFilter ==
    /\ pc = "get_site_info"
    /\ fpc = "returned"
    /\ site_info' = ret
    /\ IF ~Truthy(ret)
       THEN /\ pc' = "done"
            /\ UNCHANGED <<processed_outages, exc, trail>>
       ELSE LET r == filter_and_transform_outages(outages.v, ret.v)
            IN  /\ trail' = Append(trail, "filter_and_transform_outages")
                /\ IF r.raise # "none"
                   THEN /\ pc' = "crashed"
                        /\ exc' = r.raise
                        /\ UNCHANGED processed_outages
                   ELSE /\ pc' = "post"
                        /\ processed_outages' = r.out
                        /\ UNCHANGED exc
    /\ UNCHANGED <<outages, post_response, reported, fetchVars, attempts, sleeps, sent>>

\* Mutant: post_site_outages posts an empty list too.
MainPostAlways ==
    /\ pc = "post"
    /\ trail' = Append(trail, "post_site_outages")
    /\ pc' = "post_site_outages"
    /\ CallFetch(SiteOutagesEndpoint, "POST", DefaultRetries, DefaultBackoff)
    /\ UNCHANGED <<outages, site_info, processed_outages, post_response, reported, exc, sent>>

\* lines 167-170 and 123-127: post_site_outages skips the request for an empty
\* list and returns None, on which main returns; otherwise it calls fetch_data
MainPost ==
    /\ pc = "post"
    /\ trail' = Append(trail, "post_site_outages")
    /\ IF processed_outages = <<>>
       THEN /\ post_response' = None
            /\ pc' = "done"
            /\ UNCHANGED <<fetchVars, attempts, sleeps>>
       ELSE /\ pc' = "post_site_outages"
            /\ CallFetch(SiteOutagesEndpoint, "POST", DefaultRetries, DefaultBackoff)
            /\ UNCHANGED post_response
    /\ UNCHANGED <<outages, site_info, processed_outages, reported, exc, sent>>

\* lines 127-175: the POST has returned; report success if the response is truthy
MainFinish ==
    /\ pc = "post_site_outages"
    /\ fpc = "returned"
    /\ post_response' = ret
    /\ reported' = Truthy(ret)
    /\ pc' = "done"
    /\ UNCHANGED <<outages, site_info, processed_outages, fetchVars, exc, histVars>>

MainStep ==
    \/ MainGetAllOutages
    \/ MainGetSiteInfo
    \/ MainFilter
    \/ MainPost
    \/ MainFinish

Init ==
    /\ pc = "start"
    /\ InitMainIdle
    /\ fpc = "idle"
    /\ endpoint = OutagesEndpoint
    /\ method = "GET"
    /\ retries = DefaultRetries
    /\ backoff_factor = DefaultBackoff
    /\ i = 0
    /\ response = Unbound
    /\ wait_time = 0
    /\ ret = None
    /\ attempts = <<>>
    /\ sleeps = <<>>

Next == MainStep \/ FetchStep

Spec == Init /\ [][Next]_vars

----------------------------------------------------------------------------
(* Either a run of main or a direct call of fetch_data, every enabled step of
   which is eventually taken: the program is sequential, and each request and
   each sleep is taken to complete. *)

SpecRun == (Init \/ InitFetch) /\ [][Next]_vars /\ WF_vars(Next)

----------------------------------------------------------------------------
(* A direct call of filter_and_transform_outages on arbitrary inputs *)

SiteInfos == {SiteInfoOf(devs) : devs \in SeqsUpTo(Devices, MaxDevices)}

InitFilter ==
    /\ pc = "filter_call"
    /\ outages \in {PyList(s) : s \in SeqsUpTo(Outages, MaxOutages)}
    /\ site_info \in SiteInfos
    /\ processed_outages = <<>>
    /\ post_response = None
    /\ reported = FALSE
    /\ exc = "none"
    /\ sent = {}
    /\ trail = <<>>
    /\ fpc = "idle"
    /\ endpoint = OutagesEndpoint
    /\ method = "GET"
    /\ retries = DefaultRetries
    /\ backoff_factor = DefaultBackoff
    /\ i = 0
    /\ response = Unbound
    /\ wait_time = 0
    /\ ret = None
    /\ attempts = <<>>
    /\ sleeps = <<>>

\* Mutant: the outages list is filtered and enriched in place.
CallFilterInPlace ==
    /\ pc = "filter_call"
    /\ LET r == filter_and_transform_outages(outages.v, site_info.v)
       IN  IF r.raise # "none"
           THEN /\ pc' = "filter_raised"
                /\ exc' = r.raise
                /\ UNCHANGED <<processed_outages, outages>>
           ELSE /\ pc' = "filter_returned"
                /\ processed_outages' = r.out
                /\ outages' = PyList(r.out)
                /\ UNCHANGED exc
    /\ UNCHANGED <<site_info, post_response, reported, fetchVars, histVars>>

CallFilter ==
    /\ pc = "filter_call"
    /\ LET r == filter_and_transform_outages(outages.v, site_info.v)
       IN  IF r.raise # "none"
           THEN /\ pc' = "filter_raised"
                /\ exc' = r.raise
                /\ UNCHANGED processed_outages
           ELSE /\ pc' = "filter_returned"
                /\ processed_outages' = r.out
                /\ UNCHANGED exc
    /\ UNCHANGED <<outages, site_info, post_response, reported, fetchVars, histVars>>

\* A second call, on the output of the first and the same site info
CallFilterAgain ==
    /\ pc = "filter_returned"
    /\ LET r == filter_and_transform_outages(processed_outages, site_info.v)
       IN  IF r.raise # "none"
           THEN /\ pc' = "filter_raised"
                /\ exc' = r.raise
                /\ UNCHANGED processed_outages
           ELSE /\ pc' = "filter_reapplied"
                /\ processed_outages' = r.out
                /\ UNCHANGED exc
    /\ UNCHANGED <<outages, site_info, post_response, reported, fetchVars, histVars>>

NextFilter == CallFilter \/ CallFilterAgain

SpecFilter == InitFilter /\ [][NextFilter]_vars

----------------------------------------------------------------------------
(* Properties of fetch_data, checked under SpecFetch *)

Is429(a) == a.kind = "response" /\ a.status = 429
Is400(a) == a.kind = "response" /\ a.status = 400
IsOk(a)  == a.kind = "response" /\ a.status = 200 /\ a.valid

\* number of 429 responses among the first k attempts
Count429(k) == Cardinality({j \in 1..k : Is429(attempts[j])})

\* C1: the sleep for a 429 at attempt index k-1 lasts backoff_factor * 2^(k-1),
\* whatever came before (it is pending in wait_time until performed); and after
\* 429, 429, 429, 200 the call returns the 200 payload having slept exactly
\* backoff_factor*1, *2, *4 in that order.
C1_BackoffDurations ==
    /\ \A k \in 1..Len(attempts) :
          Is429(attempts[k]) =>
             LET m == Count429(k)
             IN  IF m <= Len(sleeps)
                 THEN sleeps[m] = backoff_factor * (2 ^ (k - 1))
                 ELSE /\ fpc = "sleep"
                      /\ k = Len(attempts)
                      /\ wait_time = backoff_factor * (2 ^ (k - 1))
    /\ ( /\ Len(attempts) = 4
         /\ \A k \in 1..3 : Is429(attempts[k])
         /\ IsOk(attempts[4]) )
       => /\ fpc = "returned"
          /\ ret = response.body
          /\ response.status = 200
          /\ sleeps = <<backoff_factor, backoff_factor * 2, backoff_factor * 4>>

C1_Witness ==
    /\ fpc = "returned"
    /\ backoff_factor = DefaultBackoff
    /\ Len(attempts) = 4
    /\ \A k \in 1..3 : Is429(attempts[k])
    /\ IsOk(attempts[4])
    /\ ret = PyList(<<[id |-> "d1", begin |-> Stamp("offset", 1, 0)]>>)
    /\ sleeps = <<500, 1000, 2000>>

\* C2: a 400 response is the last thing the call does: it is the last request,
\* the call has returned None, and no sleep follows it (every sleep performed
\* belongs to a 429 before it); a 400 on the first attempt ends the call after
\* one request and no sleep.
C2_BadRequestIsFinal ==
    \A k \in 1..Len(attempts) :
       Is400(attempts[k]) =>
          /\ k = Len(attempts)
          /\ fpc = "returned"
          /\ ret = None
          /\ Len(sleeps) = Count429(k)
          /\ (k = 1 => sleeps = <<>>)

C2_Witness ==
    /\ retries >= 3
    /\ Len(attempts) = 1
    /\ Is400(attempts[1])
    /\ fpc = "returned"
    /\ sleeps = <<>>

\* A failure that C3 lists: a timeout, a 429, or an HTTP error status other than 400
IsRetryableFailure(a) ==
    \/ a.kind = "timeout"
    \/ a.kind = "response" /\ a.status >= 400 /\ a.status # 400

\* C3: a call all of whose attempts were timeouts, 429s or non-400 HTTP errors
\* does not raise, and once it has returned it has issued exactly `retries`
\* requests and returned None.
C3_ExhaustionReturnsNone ==
    (\A k \in 1..Len(attempts) : IsRetryableFailure(attempts[k])) =>
        /\ fpc # "raised"
        /\ fpc = "returned" => (Len(attempts) = retries /\ ret = None)

C3_Witness ==
    /\ fpc = "returned"
    /\ retries = 3
    /\ Len(attempts) = 3
    /\ \A k \in 1..3 : attempts[k].kind = "timeout"
    /\ ret = None

\* C4: a transport error other than a timeout never makes fetch_data raise; the
\* loop goes on to the next attempt.
C4_TransportErrorNeverRaises ==
    /\ fpc # "raised"
    /\ exc = "none"

----------------------------------------------------------------------------
(* Properties of filter_and_transform_outages, checked under SpecFilter *)

\* The cutoff 2022-01-01T00:00:00Z is hour 0; a string with an offset denotes
\* the instant t - off.
BeginInstant(o) == o.begin.t - o.begin.off

DeviceIdSet == {site_info.v.devices[k].id : k \in 1..Len(site_info.v.devices)}

\* indices of the input outages that the rule retains
Retained ==
    {k \in 1..Len(outages.v) :
        /\ outages.v[k].begin.form = "offset"
        /\ BeginInstant(outages.v[k]) >= 0
        /\ outages.v[k].id \in DeviceIdSet}

\* the j-th retained index, in input order
NthRetained(j) == CHOOSE k \in Retained : Cardinality({x \in Retained : x < k}) = j - 1

\* C5: the output is the subsequence of the retained inputs, in input order; so
\* it is no longer than the input, every output id is a device id, and no
\* outage with an unmatched id appears in it.
C5_OutputIsRetainedSubsequence ==
    pc = "filter_returned" =>
        /\ Len(processed_outages) = Cardinality(Retained)
        /\ \A j \in 1..Len(processed_outages) :
              /\ processed_outages[j].id = outages.v[NthRetained(j)].id
              /\ processed_outages[j].begin = outages.v[NthRetained(j)].begin
        /\ Len(processed_outages) <= Len(outages.v)
        /\ \A j \in 1..Len(processed_outages) : processed_outages[j].id \in DeviceIdSet

C5_Witness ==
    /\ pc = "filter_returned"
    /\ Len(outages.v) = 2
    /\ outages.v[1].id = "d2" /\ outages.v[1].begin = Stamp("offset", 1, 0)
    /\ outages.v[2].id = "d1" /\ outages.v[2].begin = Stamp("offset", 0, 0)
    /\ DeviceIdSet = {"d1"}
    /\ Len(processed_outages) = 1
    /\ processed_outages[1].id = "d1"

\* C6: an outage that begins strictly before the cutoff instant is not in the
\* output even when its id is a device id, and one that begins exactly at the
\* cutoff instant with a device id is in the output.
C6_CutoffBoundary ==
    pc = "filter_returned" =>
        \A k \in 1..Len(outages.v) :
           LET o == outages.v[k]
               InOutput == \E j \in 1..Len(processed_outages) :
                              /\ processed_outages[j].id = o.id
                              /\ processed_outages[j].begin = o.begin
           IN  /\ BeginInstant(o) < 0 => ~InOutput
               /\ (BeginInstant(o) = 0 /\ o.id \in DeviceIdSet) => InOutput

C6_Witness ==
    /\ pc = "filter_returned"
    /\ Len(outages.v) = 2
    /\ outages.v[1].id = "d1" /\ outages.v[1].begin = Stamp("offset", 0, 1)
    /\ outages.v[2].id = "d1" /\ outages.v[2].begin = Stamp("offset", 1, 1)
    /\ "d1" \in DeviceIdSet
    /\ Len(processed_outages) = 1
    /\ processed_outages[1].begin = Stamp("offset", 1, 1)

\* the name of the last device of the site info that has this id
LastNameOf(id) ==
    LET devs == site_info.v.devices
        K == {k \in 1..Len(devs) : devs[k].id = id}
    IN  devs[CHOOSE k \in K : \A x \in K : x <= k].name

\* C7: each output record has the keys of its source outage plus "name", equals
\* the source on every key but "name", and its name is that of the last device
\* with the same id, whether or not the source had a name.
C7_EnrichedRecord ==
    pc = "filter_returned" =>
        \A j \in 1..Len(processed_outages) :
           LET src == outages.v[NthRetained(j)]
               rec == processed_outages[j]
           IN  /\ DOMAIN rec = DOMAIN src \cup {"name"}
               /\ \A key \in DOMAIN src \ {"name"} : rec[key] = src[key]
               /\ rec.name = LastNameOf(src.id)

C7_Witness ==
    /\ pc = "filter_returned"
    /\ site_info.v.devices = <<[id |-> "d1", name |-> "Fridge"], [id |-> "d1", name |-> "Oven"]>>
    /\ outages.v = <<[id |-> "d1", begin |-> Stamp("offset", 1, 0), name |-> "Stale"]>>
    /\ processed_outages = <<[id |-> "d1", begin |-> Stamp("offset", 1, 0), name |-> "Oven"]>>

----------------------------------------------------------------------------
(* Properties of main, checked under Spec *)

MainOrder ==
    <<"get_all_outages", "get_site_info", "filter_and_transform_outages", "post_site_outages">>

\* C8: main begins its steps in the order fetch outages, fetch site info,
\* transform, post; a site-info request needs an outages fetch that returned a
\* value, a POST request needs both fetches to have returned a value, and
\* success is reported only after a POST that returned a value.
C8_FailFastOrder ==
    /\ Len(trail) <= Len(MainOrder)
    /\ trail = SubSeq(MainOrder, 1, Len(trail))
    /\ sent \subseteq {OutagesEndpoint, SiteInfoEndpoint, SiteOutagesEndpoint}
    /\ OutagesEndpoint \in sent => Len(trail) >= 1
    /\ SiteInfoEndpoint \in sent =>
          /\ Len(trail) >= 2
          /\ OutagesEndpoint \in sent
          /\ outages.t # "None"
    /\ SiteOutagesEndpoint \in sent =>
          /\ Len(trail) = 4
          /\ SiteInfoEndpoint \in sent
          /\ outages.t # "None"
          /\ site_info.t # "None"
    /\ reported =>
          /\ pc = "done"
          /\ SiteOutagesEndpoint \in sent
          /\ post_response.t # "None"

C8_Witness ==
    /\ pc = "done"
    /\ reported
    /\ trail = MainOrder
    /\ sent = {OutagesEndpoint, SiteInfoEndpoint, SiteOutagesEndpoint}

\* C9: when the transform output is empty, post_site_outages sends no request
\* and returns None, and the run ends without a POST and without the success
\* report.
C9_EmptyPostSkipped ==
    (Len(trail) = 4 /\ processed_outages = <<>>) =>
        /\ pc = "done"
        /\ SiteOutagesEndpoint \notin sent
        /\ post_response = None
        /\ ~reported

C9_Witness ==
    /\ Len(trail) = 4
    /\ processed_outages = <<>>
    /\ Truthy(outages)
    /\ Truthy(site_info)
    /\ pc = "done"

\* C10: the filter/transform step raises nothing, whatever the fetched outages
\* and site info are, so a run whose two fetches returned a value goes on to
\* the post step.
C10_TransformNeverRaises ==
    /\ pc # "crashed"
    /\ exc \notin {"ValueError", "TypeError", "KeyError"}
    /\ (pc \notin {"start", "get_all_outages", "get_site_info"}
            /\ Truthy(outages) /\ Truthy(site_info))
          => Len(trail) = 4 \/ pc = "post"

----------------------------------------------------------------------------
(* Further properties of fetch_data, checked under SpecFetch *)

Is2xx(a) == a.kind = "response" /\ a.status >= 200 /\ a.status < 300

\* C11 as stated: an attempt that receives a 2xx response is the last one, the
\* call has returned that response's payload with no sleep after it, and a
\* value other than None comes only from a 2xx response.
C11_FirstSuccessEndsLoop ==
    /\ \A k \in 1..Len(attempts) :
          Is2xx(attempts[k]) =>
             /\ k = Len(attempts)
             /\ fpc = "returned"
             /\ ret = response.body
             /\ Len(sleeps) = Count429(k)
    /\ ret.t # "None" => \E k \in 1..Len(attempts) : Is2xx(attempts[k])

\* C11 amended: the same for a 2xx response whose body decodes as JSON, and a
\* value other than None comes only from such a response, received last.
C11_FirstDecodableSuccessEndsLoop ==
    /\ \A k \in 1..Len(attempts) :
          IsOk(attempts[k]) =>
             /\ k = Len(attempts)
             /\ fpc = "returned"
             /\ ret = response.body
             /\ Len(sleeps) = Count429(k)
    /\ ret.t # "None" =>
          /\ fpc = "returned"
          /\ Len(attempts) >= 1
          /\ IsOk(attempts[Len(attempts)])

C11_Witness ==
    /\ fpc = "returned"
    /\ retries = 3
    /\ Len(attempts) = 2
    /\ Is2xx(attempts[1]) /\ ~attempts[1].valid
    /\ IsOk(attempts[2])
    /\ ret.t = "list"
    /\ Len(ret.v) = 1
    /\ sleeps = <<>>

LastIs429 == Len(attempts) >= 1 /\ Is429(attempts[Len(attempts)])

\* C12 as stated: a 429 at any attempt index, the last one included, is
\* followed by its sleep and then by another request, so the call never
\* returns right after a backoff sleep.
C12_SleepThenRetry ==
    LastIs429 => fpc # "returned"

\* C12 amended: a 429 at an attempt index below retries - 1 is followed by
\* its sleep and then by the next request; a 429 at index retries - 1 is
\* followed by its sleep and then by the return of None, with no request.
C12_SleepThenRetryUnlessLast ==
    LastIs429 =>
        /\ fpc \in {"sleep", "loop", "returned"}
        /\ fpc = "sleep" => i = Len(attempts) - 1
        /\ fpc = "loop" =>
              /\ i = Len(attempts)
              /\ Len(sleeps) >= 1
              /\ sleeps[Len(sleeps)] = backoff_factor * (2 ^ (i - 1))
              /\ Len(attempts) < retries => i < retries
        /\ fpc = "returned" =>
              /\ Len(attempts) = retries
              /\ i = retries
              /\ ret = None
              /\ Len(sleeps) = Count429(Len(attempts))

C12_Witness ==
    /\ retries = 3
    /\ backoff_factor = DefaultBackoff
    /\ Len(attempts) = 3
    /\ Is429(attempts[2])
    /\ attempts[3].kind = "timeout"
    /\ sleeps = <<1000>>

\* a timeout, or an HTTP error status other than 400 and 429
IsPlainFailure(a) ==
    \/ a.kind = "timeout"
    \/ a.kind = "response" /\ a.status >= 400 /\ a.status \notin {400, 429}

\* C15: the sleeps of a call, the one in progress included, are as many as the
\* 429 responses received so far, the call sleeps only right after a 429, and
\* after a timeout or a non-400 HTTP error the loop is at the next attempt (or
\* has returned, if that was the last) without a sleep in between.
C15_SleepsOnlyOn429 ==
    /\ Len(sleeps) + (IF fpc = "sleep" THEN 1 ELSE 0) = Count429(Len(attempts))
    /\ fpc = "sleep" => LastIs429
    /\ (Len(attempts) >= 1 /\ IsPlainFailure(attempts[Len(attempts)])) =>
          /\ fpc \in {"loop", "returned"}
          /\ i = Len(attempts)
          /\ Len(attempts) < retries => fpc = "loop"
          /\ Len(sleeps) = Count429(Len(attempts) - 1)

C15_Witness ==
    /\ retries = 4
    /\ backoff_factor = 3
    /\ fpc = "loop"
    /\ Len(attempts) = 4
    /\ attempts[1].kind = "timeout"
    /\ Is429(attempts[2])
    /\ attempts[3].kind = "response" /\ attempts[3].status = 500
    /\ attempts[4].kind = "response" /\ attempts[4].status = 404
    /\ sleeps = <<6>>

----------------------------------------------------------------------------
(* Further properties of filter_and_transform_outages, checked under SpecFilter *)

\* C13: a call leaves the outages list, its records and the site info as they
\* were, and a second call on the output of the first with the same site info
\* returns that output unchanged.
C13_PureAndIdempotent ==
    [][ /\ outages' = outages
        /\ site_info' = site_info
        /\ pc = "filter_returned" =>
              /\ pc' = "filter_reapplied"
              /\ processed_outages' = processed_outages ]_vars

C13_Witness ==
    /\ pc = "filter_reapplied"
    /\ Len(outages.v) = 2
    /\ outages.v[1] = [id |-> "d1", begin |-> Stamp("offset", 1, 0), name |-> "Stale"]
    /\ outages.v[2].id = "d2"
    /\ site_info.v.devices = <<[id |-> "d2", name |-> "Oven"], [id |-> "d1", name |-> "Fridge"]>>
    /\ Len(processed_outages) = 2
    /\ processed_outages[1].name = "Fridge"
    /\ processed_outages[2].name = "Oven"

----------------------------------------------------------------------------
(* Further properties of main, checked under Spec *)

\* the POST request of this run has received a 2xx response with a JSON body
PostSucceeded ==
    /\ endpoint = SiteOutagesEndpoint
    /\ Len(attempts) >= 1
    /\ IsOk(attempts[Len(attempts)])

\* C14: a run whose outages, site-info and POST requests each received a 2xx
\* JSON response and whose transform output is not empty ends with the success
\* report, whatever the JSON payloads are.
C14_SuccessWhateverThePayload ==
    (pc = "done" /\ PostSucceeded /\ processed_outages # <<>>) => reported

----------------------------------------------------------------------------
(* Properties of every fetch_data call, in main or direct, checked under SpecRun *)

RECURSIVE SumSeq(_)
SumSeq(s) == IF s = <<>> THEN 0 ELSE Head(s) + SumSeq(Tail(s))

\* time slept in the current call, the sleep in progress included
TotalSlept == SumSeq(sleeps) + (IF fpc = "sleep" THEN wait_time ELSE 0)

SleepBound == backoff_factor * ((2 ^ retries) - 1)

CallEnded == fpc \in {"returned", "raised"}

AllAttempts429 == \A k \in 1..Len(attempts) : Is429(attempts[k])

Terminated ==
    \/ pc \in {"done", "crashed"}
    \/ fpc = "raised"
    \/ pc = "harness" /\ fpc = "returned"

\* the wrappers that call fetch_data, among the steps main has begun
FetchCallsBegun ==
    Cardinality({k \in 1..Len(trail) : trail[k] # "filter_and_transform_outages"})

BoundedRequests ==
    /\ Len(attempts) <= retries
    /\ retries = 0 =>
          /\ attempts = <<>>
          /\ sleeps = <<>>
          /\ sent = {}
          /\ fpc \in {"loop", "returned"}
          /\ ret = None
    /\ \A a, b \in 1..Len(trail) : a # b => trail[a] # trail[b]
    /\ FetchCallsBegun <= 3
    /\ pc # "harness" => retries = DefaultRetries

\* what is left of the loop of the call in progress: two units for every index
\* not yet used, less one once the request of the current index has been made
LoopMeasure ==
    IF fpc = "loop" THEN 2 * (retries - i) + 1
    ELSE IF fpc = "sleep" THEN 2 * (retries - i)
    ELSE 0

\* the steps main has still to begin
StagesLeft ==
    CASE pc = "start" -> 5
      [] pc = "get_all_outages" -> 4
      [] pc = "get_site_info" -> 3
      [] pc = "post" -> 2
      [] pc = "post_site_outages" -> 1
      [] OTHER -> 0

RunMeasure == StagesLeft * (2 * retries + 2) + LoopMeasure

\* C17: a fetch_data call never issues more than `retries` requests (none, and
\* None returned, when retries is 0); main calls each wrapper at most once, each
\* with the default retries, hence issues at most 3 * retries requests; and
\* every call and every run comes to an end: until it has ended a next step
\* exists, and every step lowers a measure that is a natural number.
C17_BoundedAndTerminating ==
    /\ [](BoundedRequests /\ RunMeasure >= 0 /\ (~Terminated => ENABLED Next))
    /\ [][RunMeasure' < RunMeasure]_vars

C17_Witness ==
    /\ pc = "done"
    /\ reported
    /\ FetchCallsBegun = 3
    /\ Len(attempts) = DefaultRetries
    /\ \A k \in 1..4 : IsPlainFailure(attempts[k])

\* the branches whose handler reads `response`: lines 53 (status_code) and 59 (content)
InspectingBranches == {"http_error", "json_error", "request_exception"}

HandlerInspected ==
    /\ Len(attempts) >= 1
    /\ Branch(attempts[Len(attempts)]) \in InspectingBranches

\* C18: whenever a handler of fetch_data has inspected a response, that response
\* is the one received in the attempt the handler belongs to, never one left
\* over from an earlier attempt of the call (a handler that finds no response
\* at all is the matter of C4).
C18_HandlerReadsCurrentResponse ==
    (HandlerInspected /\ response.bound) => response.at = Len(attempts) - 1

====
